---- MODULE Spec2Model ----
(***************************************************************************)
(* Model of the Whisper transcription service (WhisperTranscriber) and of  *)
(* the linear-interpolation resampler (resampleAudio).                      *)
(*                                                                         *)
(* The service is modelled at the granularity of JavaScript's cooperative  *)
(* scheduling: the synchronous prefix of every async method is one step,   *)
(* and every continuation after an `await` is one step.  Continuations     *)
(* that wait on the same promise are queued together when the promise      *)
(* settles and run in registration order with nothing in between (the      *)
(* promise-reaction jobs of one promise are contiguous in the microtask    *)
(* queue).                                                                 *)
(***************************************************************************)
EXTENDS Integers, Sequences, FiniteSets, TLC

\* ---------------------------------------------------------------- bounds
NumCallers == 3
NumTasks == 1
MaxLoads == 2

Callers == 1..NumCallers
Tasks == 1..NumTasks
Loads == 1..MaxLoads
Models == {"A", "B"}
Kinds == {"url", "blob"}

NULL == 0

VARIABLES
    transcriber,      \* NULL or the handle stored by a load (handle id = load id)
    isLoading,
    loadingPromise,   \* NULL or the id of the promise returned by _loadModel
    pstate,           \* per load: "unused" | "pending" | "fulfilled" | "rejected"
    lmodel,           \* per load: the modelName passed to pipeline()
    reactions,        \* per load: callers awaiting the still pending promise
    mq,               \* microtask queue: sequence of blocks of continuations
    cur,              \* rest of the block whose first continuation has run
    ipc,              \* per initialize call: "idle" | "awaiting" | "resolved" | "rejected"
    iarg,             \* per caller: the modelName it passed
    irole,            \* per caller: "none" | "fast" | "starter" | "waiter" (on a
                      \* pending promise) | "latecomer" (on a settled one)
    iload,            \* per caller: the promise it awaits / awaited
    iobs,             \* per caller: value of transcriber when its call resolved
    ierr,             \* per caller: load whose failure the call rejected with
    tpc,              \* per transcribe call: "idle" | "audio" | "infer" | "done" | "failed"
    tkind,            \* per transcribe call: "url" | "blob"
    tchk,             \* handle seen by the initialized check
    trate,            \* sampling rate handed to the audio loader
    thandle,          \* handle on which inference was started
    terr,             \* per transcribe call: error it failed with
    released,         \* handles cleared by dispose()
    dlog,             \* since the last dispose(): "never" (no dispose yet) |
                      \* "clean" | "stored" (a load completed) | "init"
                      \* (initialize was called)
    readyObs,         \* result of the last isReady() call
    rpc,              \* resampleAudio: "off" | "start" | "loop" | "done"
    audioData, inputRate, outputRate, ratio, newLength,
    ri,               \* the loop variable i
    rindex, fraction, \* index and fraction of the last iteration
    result

svars == <<transcriber, isLoading, loadingPromise, pstate, lmodel, reactions,
           mq, cur, ipc, iarg, irole, iload, iobs, ierr, tpc, tkind, tchk, trate,
           thandle, terr, released, dlog, readyObs>>
rvars == <<rpc, audioData, inputRate, outputRate, ratio, newLength, ri,
           rindex, fraction, result>>
vars == <<svars, rvars>>

loadState == <<transcriber, isLoading, loadingPromise>>
ivars == <<ipc, iarg, irole, iload, iobs, ierr>>
tvars == <<tpc, tkind, tchk, trate, thandle, terr>>
pvars == <<pstate, lmodel, reactions, mq, cur>>

\* number of loads started so far (calls of pipeline())
nloads == Cardinality({L \in Loads : pstate[L] # "unused"})

\* sampling rate in the metadata of the model a handle was loaded from
SamplingRate(h) == IF lmodel[h] = "A" THEN 16000 ELSE 8000

\* the resampler takes no part in the service specification
RIdle ==
    /\ rpc = "off" /\ audioData = <<>> /\ inputRate = 1 /\ outputRate = 1
    /\ ratio = <<>> /\ newLength = 0 /\ ri = 0 /\ rindex = 0
    /\ fraction = <<>> /\ result = <<>>

Init ==
    /\ transcriber = NULL
    /\ isLoading = FALSE
    /\ loadingPromise = NULL
    /\ pstate = [L \in Loads |-> "unused"]
    /\ lmodel = [L \in Loads |-> "none"]
    /\ reactions = [L \in Loads |-> <<>>]
    /\ mq = <<>>
    /\ cur = <<>>
    /\ ipc = [c \in Callers |-> "idle"]
    /\ iarg = [c \in Callers |-> "none"]
    /\ irole = [c \in Callers |-> "none"]
    /\ iload = [c \in Callers |-> NULL]
    /\ iobs = [c \in Callers |-> NULL]
    /\ ierr = [c \in Callers |-> NULL]
    /\ tpc = [t \in Tasks |-> "idle"]
    /\ tkind = [t \in Tasks |-> "url"]
    /\ tchk = [t \in Tasks |-> NULL]
    /\ trate = [t \in Tasks |-> 0]
    /\ thandle = [t \in Tasks |-> NULL]
    /\ terr = [t \in Tasks |-> "none"]
    /\ released = {}
    /\ dlog = "never"
    /\ readyObs = "none"
    /\ RIdle

\* Callers and Tasks name the calls made, in the order they are issued:
\* call k is the next one once call k - 1 has been issued.
Issuable(pc, k) == pc[k] = "idle" /\ (k > 1 => pc[k - 1] # "idle")

\* A call from the environment can run whenever no block of promise
\* reactions is in the middle of being run.
CanEnter == cur = <<>>

AwaitRegisterOnly(c, p) ==
    /\ reactions' = [reactions EXCEPT ![p] = Append(@, c)]
    /\ mq' = mq

\* `await this.loadingPromise` on promise p by caller c
Await(c, p) ==
    IF pstate[p] = "pending"
    THEN /\ reactions' = [reactions EXCEPT ![p] = Append(@, c)]
         /\ mq' = mq
    ELSE /\ mq' = Append(mq, <<c>>)
         /\ reactions' = reactions

\* `if (this.isLoading)`: a load is taken to be in progress
loadInProgressNever == FALSE
loadInProgress == isLoading

\* `if (this.transcriber)`: the service already holds a handle
alreadyInitializedNever == FALSE
alreadyInitialized == transcriber # NULL

\* what dlog becomes when initialize() is called
LogInit == IF dlog \in {"clean", "stored"} THEN "init" ELSE dlog

\* initialize(modelName): the synchronous part up to the first await
initialize(c, modelName) ==
    /\ CanEnter
    /\ Issuable(ipc, c)
    /\ dlog' = LogInit
    /\ iarg' = [iarg EXCEPT ![c] = modelName]
    /\ IF alreadyInitialized
       THEN \* already initialized
            /\ ipc' = [ipc EXCEPT ![c] = "resolved"]
            /\ irole' = [irole EXCEPT ![c] = "fast"]
            /\ iload' = [iload EXCEPT ![c] = NULL]
            /\ iobs' = [iobs EXCEPT ![c] = transcriber]
            /\ ierr' = [ierr EXCEPT ![c] = NULL]
            /\ UNCHANGED <<loadState, pvars>>
       ELSE IF loadInProgress
       THEN \* wait for the existing loading operation
            /\ ipc' = [ipc EXCEPT ![c] = "awaiting"]
            /\ irole' = [irole EXCEPT ![c] =
                          IF pstate[loadingPromise] = "pending"
                          THEN "waiter" ELSE "latecomer"]
            /\ iload' = [iload EXCEPT ![c] = loadingPromise]
            /\ iobs' = [iobs EXCEPT ![c] = NULL]
            /\ ierr' = [ierr EXCEPT ![c] = NULL]
            /\ Await(c, loadingPromise)
            /\ UNCHANGED <<loadState, pstate, lmodel, cur>>
       ELSE \* start the load: _loadModel runs up to `await pipeline(...)`
            /\ nloads < MaxLoads
            /\ LET L == nloads + 1 IN
               /\ isLoading' = TRUE
               /\ loadingPromise' = L
               /\ pstate' = [pstate EXCEPT ![L] = "pending"]
               /\ lmodel' = [lmodel EXCEPT ![L] = modelName]
               /\ reactions' = [reactions EXCEPT ![L] = <<c>>]
               /\ iload' = [iload EXCEPT ![c] = L]
            /\ ipc' = [ipc EXCEPT ![c] = "awaiting"]
            /\ irole' = [irole EXCEPT ![c] = "starter"]
            /\ iobs' = [iobs EXCEPT ![c] = NULL]
            /\ ierr' = [ierr EXCEPT ![c] = NULL]
            /\ UNCHANGED <<transcriber, mq, cur>>
    /\ UNCHANGED <<tvars, released, readyObs, rvars>>

loadModelResolveNoStore(L) ==
    /\ CanEnter
    /\ pstate[L] = "pending"
    /\ transcriber' = transcriber
    /\ pstate' = [pstate EXCEPT ![L] = "fulfilled"]
    /\ mq' = Append(mq, reactions[L])
    /\ reactions' = [reactions EXCEPT ![L] = <<>>]
    /\ dlog' = IF dlog = "clean" THEN "stored" ELSE dlog
    /\ UNCHANGED <<isLoading, loadingPromise, lmodel, cur, ivars, tvars,
                   released, readyObs, rvars>>

\* pipeline() resolves: _loadModel stores the handle and its promise fulfils
loadModelResolve(L) ==
    /\ CanEnter
    /\ pstate[L] = "pending"
    /\ transcriber' = L
    /\ pstate' = [pstate EXCEPT ![L] = "fulfilled"]
    /\ mq' = Append(mq, reactions[L])
    /\ reactions' = [reactions EXCEPT ![L] = <<>>]
    /\ dlog' = IF dlog = "clean" THEN "stored" ELSE dlog
    /\ UNCHANGED <<isLoading, loadingPromise, lmodel, cur, ivars, tvars,
                   released, readyObs, rvars>>

\* pipeline() rejects: _loadModel's promise rejects with the same failure
loadModelReject(L) ==
    /\ CanEnter
    /\ pstate[L] = "pending"
    /\ pstate' = [pstate EXCEPT ![L] = "rejected"]
    /\ mq' = Append(mq, reactions[L])
    /\ reactions' = [reactions EXCEPT ![L] = <<>>]
    /\ UNCHANGED <<loadState, lmodel, cur, ivars, tvars, released, dlog,
                   readyObs, rvars>>

initializeResumeSwallow(c) ==
    /\ isLoading' = IF irole[c] = "starter" THEN FALSE ELSE isLoading
    /\ ipc' = [ipc EXCEPT ![c] = "resolved"]
    /\ iobs' = [iobs EXCEPT ![c] = transcriber]
    /\ ierr' = ierr

\* the continuation of initialize() after its await
initializeResume(c) ==
    LET p == iload[c] IN
    IF pstate[p] = "fulfilled"
    THEN /\ isLoading' = IF irole[c] = "starter" THEN FALSE ELSE isLoading
         /\ ipc' = [ipc EXCEPT ![c] = "resolved"]
         /\ iobs' = [iobs EXCEPT ![c] = transcriber]
         /\ ierr' = ierr
    ELSE /\ isLoading' = isLoading
         /\ ipc' = [ipc EXCEPT ![c] = "rejected"]
         /\ ierr' = [ierr EXCEPT ![c] = p]
         /\ iobs' = iobs

\* run the next continuation of the microtask queue
runMicrotask ==
    /\ cur # <<>> \/ mq # <<>>
    /\ LET block == IF cur # <<>> THEN cur ELSE Head(mq) IN
       /\ initializeResume(Head(block))
       /\ cur' = Tail(block)
       /\ mq' = IF cur # <<>> THEN mq ELSE Tail(mq)
    /\ UNCHANGED <<transcriber, loadingPromise, pstate, lmodel, reactions,
                   iarg, irole, iload, tvars, released, dlog, readyObs, rvars>>

\* the error thrown by the initialized check
uninitializedErrorLate == "TypeError"
uninitializedError == "NotInitialized"

\* transcribeFromUrl / transcribeFromBlob: the initialized check and the
\* start of the audio load
transcribe(t, kind) ==
    /\ CanEnter
    /\ Issuable(tpc, t)
    /\ tkind' = [tkind EXCEPT ![t] = kind]
    /\ tchk' = [tchk EXCEPT ![t] = transcriber]
    /\ thandle' = [thandle EXCEPT ![t] = NULL]
    /\ IF transcriber = NULL
       THEN /\ tpc' = [tpc EXCEPT ![t] = "failed"]
            /\ terr' = [terr EXCEPT ![t] = uninitializedError]
            /\ trate' = [trate EXCEPT ![t] = 0]
       ELSE /\ tpc' = [tpc EXCEPT ![t] = "audio"]
            /\ terr' = [terr EXCEPT ![t] = "none"]
            /\ trate' = [trate EXCEPT ![t] = SamplingRate(transcriber)]
    /\ UNCHANGED <<loadState, pvars, ivars, released, dlog, readyObs, rvars>>

\* the handle the continuation of a transcribe call runs inference on:
\* `this.transcriber` is read again after the await
inferenceHandleCaptured(t) == tchk[t]
inferenceHandle(t) == transcriber

\* read_audio / read_audio_from_blob resolves: `this.transcriber(audio)`
audioLoaded(t) ==
    /\ CanEnter
    /\ tpc[t] = "audio"
    /\ IF inferenceHandle(t) = NULL
       THEN /\ tpc' = [tpc EXCEPT ![t] = "failed"]
            /\ terr' = [terr EXCEPT ![t] = "TypeError"]
            /\ thandle' = thandle
       ELSE /\ tpc' = [tpc EXCEPT ![t] = "infer"]
            /\ thandle' = [thandle EXCEPT ![t] = inferenceHandle(t)]
            /\ terr' = terr
    /\ UNCHANGED <<loadState, pvars, ivars, tkind, tchk, trate, released,
                   dlog, readyObs, rvars>>

\* read_audio / read_audio_from_blob rejects (fetch or decode failure)
audioFailed(t) ==
    /\ CanEnter
    /\ tpc[t] = "audio"
    /\ tpc' = [tpc EXCEPT ![t] = "failed"]
    /\ terr' = [terr EXCEPT ![t] = "AudioError"]
    /\ UNCHANGED <<loadState, pvars, ivars, tkind, tchk, trate, thandle,
                   released, dlog, readyObs, rvars>>

\* the inference call resolves: output.text is returned
inferenceDone(t) ==
    /\ CanEnter
    /\ tpc[t] = "infer"
    /\ tpc' = [tpc EXCEPT ![t] = "done"]
    /\ UNCHANGED <<loadState, pvars, ivars, tkind, tchk, trate, thandle,
                   terr, released, dlog, readyObs, rvars>>

\* the inference call rejects
inferenceFailed(t) ==
    /\ CanEnter
    /\ tpc[t] = "infer"
    /\ tpc' = [tpc EXCEPT ![t] = "failed"]
    /\ terr' = [terr EXCEPT ![t] = "InferenceError"]
    /\ UNCHANGED <<loadState, pvars, ivars, tkind, tchk, trate, thandle,
                   released, dlog, readyObs, rvars>>

isReadyOrLoading == transcriber # NULL \/ isLoading
\* isReady(): `return this.transcriber !== null`
isReady == transcriber # NULL

\* a call of isReady()
isReadyCall ==
    /\ CanEnter
    /\ readyObs' = IF isReady THEN "ready" ELSE "notReady"
    /\ UNCHANGED <<loadState, pvars, ivars, tvars, released, dlog, rvars>>

disposeKeep ==
    /\ CanEnter
    /\ UNCHANGED <<transcriber, released>>
    /\ dlog' = "clean"
    /\ UNCHANGED <<isLoading, loadingPromise, pvars, ivars, tvars, readyObs,
                   rvars>>

disposeResetFlags ==
    /\ CanEnter
    /\ IF transcriber # NULL
       THEN /\ transcriber' = NULL
            /\ released' = released \cup {transcriber}
       ELSE UNCHANGED <<transcriber, released>>
    /\ isLoading' = FALSE
    /\ dlog' = "clean"
    /\ UNCHANGED <<loadingPromise, pvars, ivars, tvars, readyObs, rvars>>

disposeClearPromise ==
    /\ CanEnter
    /\ IF transcriber # NULL
       THEN /\ transcriber' = NULL
            /\ released' = released \cup {transcriber}
       ELSE UNCHANGED <<transcriber, released>>
    /\ loadingPromise' = NULL
    /\ dlog' = "clean"
    /\ UNCHANGED <<isLoading, pvars, ivars, tvars, readyObs, rvars>>

\* dispose(): it has no await, the whole method is one step
dispose ==
    /\ CanEnter
    /\ IF transcriber # NULL
       THEN /\ transcriber' = NULL
            /\ released' = released \cup {transcriber}
       ELSE UNCHANGED <<transcriber, released>>
    /\ dlog' = "clean"
    /\ UNCHANGED <<isLoading, loadingPromise, pvars, ivars, tvars, readyObs,
                   rvars>>

Next ==
    \/ \E c \in Callers, m \in Models : initialize(c, m)
    \/ \E L \in Loads : loadModelResolve(L)
    \/ \E L \in Loads : loadModelReject(L)
    \/ runMicrotask
    \/ \E t \in Tasks, k \in Kinds : transcribe(t, k)
    \/ \E t \in Tasks : audioLoaded(t)
    \/ \E t \in Tasks : audioFailed(t)
    \/ \E t \in Tasks : inferenceDone(t)
    \/ \E t \in Tasks : inferenceFailed(t)
    \/ isReadyCall
    \/ dispose

Spec == Init /\ [][Next]_vars

\* The event loop runs every queued continuation, and every pipeline() call
\* is taken to complete, by resolving or by rejecting.
Fairness ==
    /\ WF_vars(runMicrotask)
    /\ \A L \in Loads : WF_vars(loadModelResolve(L) \/ loadModelReject(L))

\* The steps of initialize() and dispose() calls and of the loads.  The
\* steps of transcribe and isReady() calls are left out: they change none of
\* the variables these steps read.
NextLoader ==
    \/ \E c \in Callers, m \in Models : initialize(c, m)
    \/ \E L \in Loads : loadModelResolve(L)
    \/ \E L \in Loads : loadModelReject(L)
    \/ runMicrotask
    \/ dispose

SpecFair == Init /\ [][NextLoader]_vars /\ Fairness

TypeOK ==
    /\ transcriber \in {NULL} \cup Loads
    /\ isLoading \in BOOLEAN
    /\ loadingPromise \in {NULL} \cup Loads
    /\ \A c \in Callers : ipc[c] \in {"idle", "awaiting", "resolved", "rejected"}
    /\ \A t \in Tasks : tpc[t] \in {"idle", "audio", "infer", "done", "failed"}
    /\ released \subseteq Loads
\* ------------------------------------------------------------ arithmetic
\* JavaScript numbers are IEEE-754 binary64 values and the elements of a
\* Float32Array are binary32 values.  A finite value is s * m * 2^e with
\* sign s, natural m and integer e; m is kept as a little-endian sequence
\* of limbs because it does not fit the integers of the model checker.
\* No value of resampleAudio within the bounds overflows or is subnormal.

LimbBits == 15
LimbBase == 32768
DoubleBits == 53
FloatBits == 24

RECURSIVE Pow2(_)
Pow2(n) == IF n = 0 THEN 1 ELSE 2 * Pow2(n - 1)

RECURSIVE BNorm(_)
BNorm(x) ==
    IF x = <<>> THEN <<>>
    ELSE IF x[Len(x)] = 0 THEN BNorm(SubSeq(x, 1, Len(x) - 1))
    ELSE x

RECURSIVE BFromInt(_)
BFromInt(n) ==
    IF n = 0 THEN <<>> ELSE <<n % LimbBase>> \o BFromInt(n \div LimbBase)

RECURSIVE BToInt(_)
BToInt(x) == IF x = <<>> THEN 0 ELSE Head(x) + LimbBase * BToInt(Tail(x))

RECURSIVE BAddC(_, _, _)
BAddC(x, y, c) ==
    IF x = <<>> /\ y = <<>>
    THEN IF c = 0 THEN <<>> ELSE <<c>>
    ELSE LET a == IF x = <<>> THEN 0 ELSE Head(x)
             b == IF y = <<>> THEN 0 ELSE Head(y)
             t == a + b + c
         IN <<t % LimbBase>> \o
            BAddC(IF x = <<>> THEN <<>> ELSE Tail(x),
                  IF y = <<>> THEN <<>> ELSE Tail(y), t \div LimbBase)

BAdd(x, y) == BAddC(x, y, 0)

\* x - y for x >= y
RECURSIVE BSubC(_, _, _)
BSubC(x, y, c) ==
    IF x = <<>> THEN <<>>
    ELSE LET b == IF y = <<>> THEN 0 ELSE Head(y)
             t == Head(x) - b - c
         IN <<IF t < 0 THEN t + LimbBase ELSE t>> \o
            BSubC(Tail(x), IF y = <<>> THEN <<>> ELSE Tail(y),
                  IF t < 0 THEN 1 ELSE 0)

BSub(x, y) == BNorm(BSubC(x, y, 0))

RECURSIVE BCmpAt(_, _, _)
BCmpAt(x, y, i) ==
    IF i = 0 THEN 0
    ELSE IF x[i] < y[i] THEN -1
    ELSE IF x[i] > y[i] THEN 1
    ELSE BCmpAt(x, y, i - 1)

\* -1, 0 or 1 as x < y, x = y or x > y
BCmp(x, y) ==
    IF Len(x) < Len(y) THEN -1
    ELSE IF Len(x) > Len(y) THEN 1
    ELSE BCmpAt(x, y, Len(x))

RECURSIVE BMulSmallC(_, _, _)
BMulSmallC(x, k, c) ==
    IF x = <<>>
    THEN IF c = 0 THEN <<>> ELSE <<c>>
    ELSE LET t == Head(x) * k + c
         IN <<t % LimbBase>> \o BMulSmallC(Tail(x), k, t \div LimbBase)

\* x * k for 0 <= k < LimbBase
BMulSmall(x, k) == BNorm(BMulSmallC(x, k, 0))

RECURSIVE BMul(_, _)
BMul(x, y) ==
    IF x = <<>> \/ y = <<>> THEN <<>>
    ELSE BNorm(BAdd(BMulSmall(x, Head(y)), <<0>> \o BMul(x, Tail(y))))

Zeros(n) == [k \in 1..n |-> 0]

\* x * 2^n
BShl(x, n) ==
    IF x = <<>> THEN <<>>
    ELSE Zeros(n \div LimbBits) \o BMulSmall(x, Pow2(n % LimbBits))

\* floor(x / k) for 0 < k < LimbBase, limbs taken from the top
RECURSIVE BDivSmallAt(_, _, _, _)
BDivSmallAt(x, k, i, r) ==
    IF i = 0 THEN <<>>
    ELSE LET t == r * LimbBase + x[i]
         IN BDivSmallAt(x, k, i - 1, t % k) \o <<t \div k>>

\* floor(x / 2^n)
BShr(x, n) ==
    LET limbs == n \div LimbBits
        y == IF limbs >= Len(x) THEN <<>> ELSE SubSeq(x, limbs + 1, Len(x))
    IN BNorm(BDivSmallAt(y, Pow2(n % LimbBits), Len(y), 0))

RECURSIVE IntBitLen(_)
IntBitLen(n) == IF n = 0 THEN 0 ELSE 1 + IntBitLen(n \div 2)

BitLen(x) ==
    IF x = <<>> THEN 0
    ELSE LimbBits * (Len(x) - 1) + IntBitLen(x[Len(x)])

BIsOdd(x) == x # <<>> /\ Head(x) % 2 = 1

Limb(x, i) == IF i <= Len(x) THEN x[i] ELSE 0

\* floor(r / d) for r < d * LimbBase, where the top limb of d is at least
\* LimbBase / 2: the estimate from the top limbs is at most 2 too large
QuotientDigit(r, d) ==
    LET n == Len(d)
        top == (Limb(r, n + 1) * LimbBase + Limb(r, n)) \div d[n]
        est == IF top >= LimbBase THEN LimbBase - 1 ELSE top
    IN IF BCmp(BMulSmall(d, est), r) <= 0 THEN est
       ELSE IF BCmp(BMulSmall(d, est - 1), r) <= 0 THEN est - 1
       ELSE est - 2

\* one step of long division: prev is <<quotient, remainder>> of the limbs
\* above, limb is the next limb of the dividend
BDivStep(prev, limb, d) ==
    IF prev[2] = <<>> /\ limb = 0
    THEN <<IF prev[1] = <<>> THEN <<>> ELSE <<0>> \o prev[1], <<>>>>
    ELSE LET r == BNorm(<<limb>> \o prev[2])
             q == QuotientDigit(r, d)
         IN <<BNorm(<<q>> \o prev[1]), BSub(r, BMulSmall(d, q))>>

\* <<floor(a' / d), a' mod d>> for a' the limbs of a from limb i upwards,
\* by long division: the limbs above limb i first, then limb i
RECURSIVE BDivModFrom(_, _, _)
BDivModFrom(a, d, i) ==
    IF i > Len(a) THEN <<<<>>, <<>>>>
    ELSE BDivStep(BDivModFrom(a, d, i + 1), a[i], d)

\* <<floor(a / b), r>> with r = <<>> iff b divides a; both are scaled so
\* that the top limb of the divisor is at least LimbBase / 2
BDivMod(a, b) ==
    LET sh == LimbBits - IntBitLen(b[Len(b)])
    IN BDivModFrom(BShl(a, sh), BShl(b, sh), 1)

\* a finite value s * m * 2^e; NaN stands for the NaN an undefined
\* operand gives
Num(s, m, e) == [s |-> s, m |-> m, e |-> e]
Zero == Num(1, <<>>, 0)
NaN == Num(0, <<>>, 0)
IsNaN(x) == x.s = 0

\* s * m * 2^e (inexact iff sticky: the true value is a little above
\* m * 2^e in magnitude) rounded to p significant bits, ties to even
RoundBits(p, s, m, e, sticky) ==
    IF m = <<>> THEN Zero
    ELSE LET L == BitLen(m) IN
         IF L <= p THEN Num(s, BShl(m, p - L), e - (p - L))
         ELSE LET k == L - p
                  q == BShr(m, k)
                  rem == BSub(m, BShl(q, k))
                  c == BCmp(rem, BShl(<<1>>, k - 1))
                  up == c > 0 \/ (c = 0 /\ (sticky \/ BIsOdd(q)))
                  q2 == IF up THEN BAdd(q, <<1>>) ELSE q
              IN IF BitLen(q2) > p
                 THEN Num(s, BShr(q2, 1), e + k + 1)
                 ELSE Num(s, q2, e + k)

\* the number n as a binary64 value (exact for the integers of the model)
FromInt(n) ==
    IF n < 0 THEN RoundBits(DoubleBits, -1, BFromInt(-n), 0, FALSE)
    ELSE RoundBits(DoubleBits, 1, BFromInt(n), 0, FALSE)

\* the exact sum x + y, not rounded
ExactAdd(x, y) ==
    IF x.m = <<>> THEN y
    ELSE IF y.m = <<>> THEN x
    ELSE LET e == IF x.e < y.e THEN x.e ELSE y.e
             mx == BShl(x.m, x.e - e)
             my == BShl(y.m, y.e - e)
             c == BCmp(mx, my)
         IN IF x.s = y.s THEN Num(x.s, BAdd(mx, my), e)
            ELSE IF c = 0 THEN Zero
            ELSE IF c > 0 THEN Num(x.s, BSub(mx, my), e)
            ELSE Num(y.s, BSub(my, mx), e)

Neg(x) == IF x.m = <<>> THEN x ELSE Num(0 - x.s, x.m, x.e)

\* binary64 +, -, * and /
FAdd(x, y) ==
    IF IsNaN(x) \/ IsNaN(y) THEN NaN
    ELSE LET z == ExactAdd(x, y) IN RoundBits(DoubleBits, z.s, z.m, z.e, FALSE)

FSub(x, y) == IF IsNaN(y) THEN NaN ELSE FAdd(x, Neg(y))

FMul(x, y) ==
    IF IsNaN(x) \/ IsNaN(y) THEN NaN
    ELSE RoundBits(DoubleBits, x.s * y.s, BMul(x.m, y.m), x.e + y.e, FALSE)

\* y is not zero; both mantissas have DoubleBits bits, so the quotient
\* of x.m * 2^(DoubleBits + 2) by y.m has more than DoubleBits bits
FDiv(x, y) ==
    IF IsNaN(x) \/ IsNaN(y) THEN NaN
    ELSE IF x.m = <<>> THEN Zero
    ELSE LET qr == BDivMod(BShl(x.m, DoubleBits + 2), y.m)
         IN RoundBits(DoubleBits, x.s * y.s, qr[1],
                      x.e - y.e - (DoubleBits + 2), qr[2] # <<>>)

\* Math.floor(x) for x >= 0, as an integer
Floor(x) ==
    IF x.m = <<>> THEN 0
    ELSE IF x.e >= 0 THEN BToInt(BShl(x.m, x.e))
    ELSE BToInt(BShr(x.m, 0 - x.e))

\* Math.round(x) for x >= 0: the nearest integer, ties upwards
MathRound(x) == (Floor(Num(x.s, x.m, x.e + 1)) + 1) \div 2

\* the value stored in a Float32Array element: nearest binary32
ToFloat32(x) ==
    IF IsNaN(x) THEN NaN ELSE RoundBits(FloatBits, x.s, x.m, x.e, FALSE)

\* x <= y for values that are not NaN
Leq(x, y) == LET z == ExactAdd(y, Neg(x)) IN z.m = <<>> \/ z.s = 1
Lt(x, y) == LET z == ExactAdd(y, Neg(x)) IN z.m # <<>> /\ z.s = 1

\* ------------------------------------------------------------- resampler
MaxLen == 3
MaxRate == 5
MaxAudioLen == 9
MaxAudioRate == 18

\* a binary32 sample k * 2^(-sh)
Sample(k, sh) ==
    LET x == FromInt(k)
    IN IF x.m = <<>> THEN Zero ELSE ToFloat32(Num(x.s, x.m, x.e - sh))

One == FromInt(1)

\* sample values of a channel: -1, 0, 1 and the binary32 nearest to 0.1
Samples == {Sample(-1, 0), Sample(0, 0), Sample(1, 0), Sample(13421773, 27)}

RECURSIVE SeqsUpTo(_, _)
SeqsUpTo(S, n) ==
    IF n = 0 THEN {<<>>}
    ELSE LET shorter == SeqsUpTo(S, n - 1)
         IN shorter \cup {Append(q, x) : q \in {r \in shorter : Len(r) = n - 1}, x \in S}

Silence(n) == [k \in 1..n |-> Zero]

\* audioData[index]: undefined, hence NaN in arithmetic and in a
\* Float32Array element, when index is not below the length
At(data, index) ==
    IF index < Len(data) THEN data[index + 1] ELSE NaN

\* const ratio = inputRate / outputRate
ratioOf(inRate, outRate) == FDiv(FromInt(inRate), FromInt(outRate))

\* const newLength = Math.round(audioData.length / ratio)
newLengthOfInclusive(len, r) == MathRound(FDiv(FromInt(len), r)) + 1
newLengthOf(len, r) == MathRound(FDiv(FromInt(len), r))

\* position = i * ratio; index = Math.floor(position);
\* fraction = position - index
positionOf(i, r) == FMul(FromInt(i), r)
indexOf(i, r) == Floor(positionOf(i, r))
fractionOf(i, r) == FSub(positionOf(i, r), FromInt(indexOf(i, r)))

\* audioData[index] * (1 - fraction) + audioData[index + 1] * fraction
interpolateOvershoot(a, b, f) == FAdd(FMul(a, FAdd(One, f)), FMul(b, f))
interpolate(a, b, f) == FAdd(FMul(a, FSub(One, f)), FMul(b, f))

\* the value the loop body stores in result[i]
sampleOf(data, r, i) ==
    LET idx == indexOf(i, r)
    IN IF idx + 1 < Len(data)
       THEN ToFloat32(interpolate(At(data, idx), At(data, idx + 1),
                                  fractionOf(i, r)))
       ELSE ToFloat32(At(data, idx))

\* the service takes no part in the resampler specifications
SIdle ==
    /\ transcriber = NULL
    /\ isLoading = FALSE
    /\ loadingPromise = NULL
    /\ pstate = [L \in Loads |-> "unused"]
    /\ lmodel = [L \in Loads |-> "none"]
    /\ reactions = [L \in Loads |-> <<>>]
    /\ mq = <<>>
    /\ cur = <<>>
    /\ ipc = [c \in Callers |-> "idle"]
    /\ iarg = [c \in Callers |-> "none"]
    /\ irole = [c \in Callers |-> "none"]
    /\ iload = [c \in Callers |-> NULL]
    /\ iobs = [c \in Callers |-> NULL]
    /\ ierr = [c \in Callers |-> NULL]
    /\ tpc = [t \in Tasks |-> "idle"]
    /\ tkind = [t \in Tasks |-> "url"]
    /\ tchk = [t \in Tasks |-> NULL]
    /\ trate = [t \in Tasks |-> 0]
    /\ thandle = [t \in Tasks |-> NULL]
    /\ terr = [t \in Tasks |-> "none"]
    /\ released = {}
    /\ dlog = "never"
    /\ readyObs = "none"

RLocals ==
    /\ rpc = "start" /\ ratio = Zero /\ newLength = 0 /\ ri = 0
    /\ rindex = 0 /\ fraction = Zero /\ result = <<>>

\* a call resampleAudio(audioData, inputRate, outputRate)
InitResample ==
    /\ SIdle
    /\ audioData \in SeqsUpTo(Samples, MaxLen)
    /\ inputRate \in 1..MaxRate
    /\ outputRate \in 1..MaxRate
    /\ RLocals

\* a call of resampleAudio on longer audio at a wider range of rates
InitLength ==
    /\ SIdle
    /\ audioData \in {Silence(n) : n \in 0..MaxAudioLen}
    /\ inputRate \in 1..MaxAudioRate
    /\ outputRate \in 1..MaxAudioRate
    /\ RLocals

\* `return audioData` when the rates are equal
sameRateResultFresh(data) == Silence(Len(data))
sameRateResult(data) == data

\* resampleAudio up to the allocation of result
resampleStart ==
    /\ rpc = "start"
    /\ IF inputRate = outputRate
       THEN /\ result' = sameRateResult(audioData)
            /\ rpc' = "done"
            /\ UNCHANGED <<ratio, newLength>>
       ELSE /\ ratio' = ratioOf(inputRate, outputRate)
            /\ newLength' = newLengthOf(Len(audioData), ratio')
            /\ result' = Silence(newLength')
            /\ rpc' = "loop"
    /\ UNCHANGED <<audioData, inputRate, outputRate, ri, rindex, fraction, svars>>

\* one iteration of the loop
resampleStep ==
    /\ rpc = "loop"
    /\ ri < newLength
    /\ rindex' = indexOf(ri, ratio)
    /\ fraction' = fractionOf(ri, ratio)
    /\ result' = [result EXCEPT ![ri + 1] = sampleOf(audioData, ratio, ri)]
    /\ ri' = ri + 1
    /\ UNCHANGED <<rpc, audioData, inputRate, outputRate, ratio, newLength, svars>>

\* the loop ends and result is returned
resampleReturn ==
    /\ rpc = "loop"
    /\ ri >= newLength
    /\ rpc' = "done"
    /\ UNCHANGED <<audioData, inputRate, outputRate, ratio, newLength, ri,
                   rindex, fraction, result, svars>>

NextResample == resampleStart \/ resampleStep \/ resampleReturn

SpecResample == InitResample /\ [][NextResample]_vars

SpecLength == InitLength /\ [][resampleStart]_vars

\* whole calls of resampleAudio on the longer audio
SpecIndex == InitLength /\ [][NextResample]_vars

\* ------------------------------------------------------------------ claims

\* C1: single-flight.  As long as dispose() was never called, any number of
\* initialize() calls start exactly one model load, and once every caller
\* has resolved they all observed the same handle, which is the one stored.
C1SingleFlight ==
    dlog = "never" =>
        /\ nloads <= 1
        /\ (\E c \in Callers : ipc[c] # "idle") => nloads = 1
        /\ (\A c \in Callers : ipc[c] = "resolved") =>
               \E h \in Loads : /\ transcriber = h
                                /\ \A c \in Callers : iobs[c] = h

C1Witness ==
    /\ dlog = "never"
    /\ nloads = 1
    /\ \A c \in Callers : ipc[c] = "resolved"
    /\ \E c \in Callers : irole[c] = "starter"
    /\ \E c \in Callers : irole[c] = "waiter" /\ iarg[c] # lmodel[iload[c]]

\* C2: a transcribe call whose initialized check saw no handle has failed
\* with NotInitialized, handed no sampling rate to the audio loader and
\* started no inference.
C2NotInitialized ==
    \A t \in Tasks :
        (tpc[t] # "idle" /\ tchk[t] = NULL) =>
            /\ tpc[t] = "failed"
            /\ terr[t] = "NotInitialized"
            /\ trate[t] = 0
            /\ thandle[t] = NULL

C2Witness ==
    \E t \in Tasks :
        /\ tpc[t] = "failed" /\ tchk[t] = NULL /\ terr[t] = "NotInitialized"
        /\ isLoading /\ transcriber = NULL /\ tkind[t] = "blob"

\* C3 as stated: whenever an initialize() call has resolved, transcriber was
\* non-null at the moment it resolved.
C3ReadyOnResolve ==
    \A c \in Callers : ipc[c] = "resolved" => iobs[c] # NULL

\* C3 as amended: when an initialize() call resolves, transcriber is
\* non-null unless dispose() has cleared the handle stored by the load the
\* call waited for.
C3ReadyUnlessDisposed ==
    \A c \in Callers :
        ipc[c] = "resolved" =>
            \/ iobs[c] # NULL
            \/ iload[c] # NULL /\ iload[c] \in released

C3Witness ==
    \E c \in Callers :
        /\ ipc[c] = "resolved" /\ irole[c] = "waiter"
        /\ iobs[c] # NULL /\ dlog # "never"

\* C4: once the load has thrown and the initialize() call that started it
\* has rejected, the service is Unloaded again: no handle and isLoading false.
C4RevertsToUnloaded ==
    \A c \in Callers :
        (irole[c] = "starter" /\ ipc[c] = "rejected" /\ loadingPromise = iload[c])
            => (isLoading = FALSE /\ transcriber = NULL)

\* C5 as stated: after dispose(), as long as initialize() has not been
\* called again, isReady() is false and a transcribe call fails with
\* NotInitialized.
C5DisposeUnloads ==
    /\ [](dlog \in {"clean", "stored"} => ~isReady)
    /\ [][\A t \in Tasks, k \in Kinds :
            (dlog \in {"clean", "stored"} /\ transcribe(t, k)) =>
                (tpc'[t] = "failed" /\ terr'[t] = "NotInitialized")]_vars

\* C5 as amended: after dispose(), as long as initialize() has not been
\* called again and no model load that was in flight has completed,
\* isReady() is false and a transcribe call fails with NotInitialized.
C5DisposeUnloadsUntilStore ==
    /\ [](dlog = "clean" => ~isReady)
    /\ [][\A t \in Tasks, k \in Kinds :
            (dlog = "clean" /\ transcribe(t, k)) =>
                (tpc'[t] = "failed" /\ terr'[t] = "NotInitialized")]_vars

C5Witness ==
    /\ dlog = "clean" /\ released # {} /\ readyObs = "notReady"
    /\ \E t \in Tasks : tpc[t] = "failed" /\ terr[t] = "NotInitialized"

\* C6: an initialize() call made while a handle is set resolves at once,
\* starts no load and leaves transcriber, isLoading and loadingPromise
\* unchanged, whatever model name it passes.
C6Idempotent ==
    [][\A c \in Callers, m \in Models :
         (transcriber # NULL /\ initialize(c, m)) =>
             /\ UNCHANGED loadState
             /\ nloads' = nloads
             /\ ipc'[c] = "resolved"]_vars

C6Witness ==
    \E c \in Callers :
        /\ ipc[c] = "resolved" /\ irole[c] = "fast"
        /\ iobs[c] = transcriber /\ iarg[c] # lmodel[transcriber]

\* C7: a transcribe call never starts inference on a handle that dispose()
\* has already cleared.
C7NoUseAfterRelease ==
    [][\A t \in Tasks :
         (tpc[t] = "audio" /\ tpc'[t] = "infer") =>
             thandle'[t] \notin released]_vars

C7Witness ==
    \E t \in Tasks :
        /\ tpc[t] = "infer" /\ tchk[t] \in released /\ thandle[t] # tchk[t]

\* C8: every initialize() call that waited for a load that failed has
\* rejected with that load's failure, and a load is only ever started by
\* the synchronous part of an initialize() call.
C8FailureSurfaced ==
    /\ [](\A c \in Callers :
            (ipc[c] \in {"resolved", "rejected"} /\ iload[c] # NULL
             /\ pstate[iload[c]] = "rejected")
                => (ipc[c] = "rejected" /\ ierr[c] = iload[c]))
    /\ [][nloads' # nloads => \E c \in Callers, m \in Models : initialize(c, m)]_vars

C8Witness ==
    \E c1, c2 \in Callers :
        /\ irole[c1] = "starter" /\ irole[c2] = "waiter"
        /\ ipc[c1] = "rejected" /\ ipc[c2] = "rejected"
        /\ ierr[c1] = ierr[c2] /\ ierr[c1] # NULL
\* round(len * outputRate / inputRate) in exact arithmetic, ties upwards
ExactLength(len, inRate, outRate) ==
    (2 * len * outRate + inRate) \div (2 * inRate)

\* C9: once result is allocated for different rates, its length is
\* round(len(x) * r_out / r_in) with ties rounded up.
C9Length ==
    (rpc # "start" /\ inputRate # outputRate) =>
        Len(result) = ExactLength(Len(audioData), inputRate, outputRate)

Range(q) == {q[k] : k \in 1..Len(q)}
MinOf(q) == CHOOSE x \in Range(q) : \A y \in Range(q) : Leq(x, y)
MaxOf(q) == CHOOSE x \in Range(q) : \A y \in Range(q) : Leq(y, x)

\* the number of elements of result written so far
Filled == IF rpc = "done" THEN Len(result) ELSE ri

\* C10: for a non-empty input every output sample written lies within
\* [min(x), max(x)] (and is a number), and the fraction used by an
\* iteration lies in [0, 1).
C10Bounded ==
    Len(audioData) > 0 =>
        /\ \A k \in 1..Filled :
              /\ ~IsNaN(result[k])
              /\ Leq(MinOf(audioData), result[k])
              /\ Leq(result[k], MaxOf(audioData))
        /\ rpc # "start" => (Leq(Zero, fraction) /\ Lt(fraction, One))

C10Witness ==
    /\ rpc = "done" /\ inputRate # outputRate /\ Len(result) >= 2
    /\ fraction # Zero
    /\ \E k \in 1..Len(result) : result[k] \notin Range(audioData)
    /\ MinOf(audioData) # MaxOf(audioData)
\* C11: when inputRate equals outputRate the result is the input sequence:
\* same length and the same value at every index.
C11Identity ==
    (rpc = "done" /\ inputRate = outputRate) =>
        /\ Len(result) = Len(audioData)
        /\ \A k \in 1..Len(audioData) : result[k] = audioData[k]

C11Witness ==
    /\ rpc = "done" /\ inputRate = outputRate /\ inputRate > 1
    /\ Len(audioData) >= 2 /\ result = audioData
    /\ \E k \in 1..Len(audioData) : audioData[k] # Zero

\* the loads whose pipeline() call has not completed
InFlight == {L \in Loads : pstate[L] = "pending"}

\* C12: at most one model load is in flight in every reachable state.
C12OneLoadInFlight == Cardinality(InFlight) <= 1

C12Witness ==
    /\ pstate[1] \in {"fulfilled", "rejected"} \/ released # {}
    /\ pstate[2] = "pending"
    /\ \E c \in Callers : irole[c] = "waiter" /\ iload[c] = 2 /\ iarg[c] # lmodel[2]
\* the initialize() calls that found a load of another model in progress
OtherModelWaiters ==
    {c \in Callers : irole[c] = "waiter" /\ iarg[c] # lmodel[iload[c]]}

\* a step in which an initialize() call is made while a load is in flight
\* starts no load
NoLoadStartedWhileInFlight ==
    \A c \in Callers :
        (ipc[c] = "idle" /\ ipc'[c] # "idle" /\ InFlight # {}) =>
            /\ pstate' = pstate /\ lmodel' = lmodel
            /\ irole'[c] = "waiter" /\ iload'[c] = loadingPromise

\* such a call settles the way the load in flight settles
SettlesWithLoad(c) ==
    /\ ipc[c] = "resolved" => pstate[iload[c]] = "fulfilled"
    /\ ipc[c] = "rejected" => pstate[iload[c]] = "rejected"
    /\ ipc[c] = "awaiting" /\ pstate[iload[c]] # "pending" =>
           \/ \E k \in 1..Len(cur) : cur[k] = c
           \/ \E b \in 1..Len(mq) : \E k \in 1..Len(mq[b]) : mq[b][k] = c

\* C13 as stated: initialize(B) called while a load for A is in progress
\* starts no load, resolves once A's load succeeds, and the handle stored
\* when it resolves is the one A's load produced.
C13FirstWins ==
    /\ [](\A c \in OtherModelWaiters :
            /\ SettlesWithLoad(c)
            /\ ipc[c] = "resolved" => iobs[c] = iload[c])
    /\ [][NoLoadStartedWhileInFlight]_vars

\* C13, amended: as C13FirstWins, except that a dispose() between the store
\* and the resumption leaves no handle stored when the call resolves; the
\* handle is never one loaded from the model named by the waiting call.
C13FirstWinsUnlessDisposed ==
    /\ [](\A c \in OtherModelWaiters :
            /\ SettlesWithLoad(c)
            /\ ipc[c] = "resolved" =>
                   \/ iobs[c] = iload[c]
                   \/ iobs[c] = NULL /\ iload[c] \in released)
    /\ [][NoLoadStartedWhileInFlight]_vars

C13Witness ==
    \E c \in OtherModelWaiters :
        /\ ipc[c] = "resolved" /\ iobs[c] = iload[c]
        /\ lmodel[iobs[c]] = "A" /\ iarg[c] = "B"
\* the three load states of the data model
Unloaded == transcriber = NULL /\ ~isLoading
Loading ==
    /\ transcriber = NULL /\ isLoading
    /\ loadingPromise # NULL /\ pstate[loadingPromise] = "pending"
Loaded == transcriber # NULL /\ ~isLoading

\* C14: in every reachable state the three fields encode exactly one of
\* Unloaded, Loading and Loaded.
C14TriState == Unloaded \/ Loading \/ Loaded

\* C15: the handle a transcribe call runs inference on is the handle whose
\* sampling rate the call passed to the audio loader.
C15SameHandle ==
    \A t \in Tasks : thandle[t] # NULL =>
        /\ thandle[t] = tchk[t]
        /\ SamplingRate(thandle[t]) = trate[t]

\* C16: a step of a transcribe call or of isReady(), that is a step that
\* changes a transcribe call's state or the answer of isReady(), leaves
\* transcriber, isLoading and loadingPromise unchanged, and isReady() reports
\* "ready" exactly when transcriber is non-null.
C16ReadSide ==
    [][/\ (tvars' # tvars \/ readyObs' # readyObs) => UNCHANGED loadState
       /\ isReadyCall => (readyObs' = "ready" <=> transcriber # NULL)]_vars

C16Witness ==
    /\ readyObs = "ready" /\ transcriber # NULL
    /\ \E t \in Tasks : tpc[t] = "failed" /\ terr[t] = "InferenceError"

\* C17: dispose() while a handle is set clears transcriber and leaves
\* isLoading and loadingPromise unchanged; while no handle is set it changes
\* no load state and leaves the load in flight alone, whose completion
\* stores the handle.
C17DisposeOnlyClears ==
    /\ [][dispose =>
            /\ UNCHANGED <<isLoading, loadingPromise, pstate, reactions, mq>>
            /\ transcriber' = NULL
            /\ transcriber = NULL => released' = released]_vars
    /\ [][\A L \in Loads :
            (pstate[L] = "pending" /\ pstate'[L] = "fulfilled") =>
                transcriber' = L]_vars
    /\ [](\A L \in Loads :
            pstate[L] = "fulfilled" => transcriber = L \/ L \in released)

C17Witness ==
    /\ dlog = "stored" /\ transcriber # NULL /\ released # {}
    /\ pstate[transcriber] = "fulfilled"
\* C18: under fair scheduling, with every model load completing, every
\* initialize() call that is waiting eventually resolves or rejects.
C18Settles ==
    \A c \in Callers :
        (ipc[c] = "awaiting") ~> (ipc[c] \in {"resolved", "rejected"})

C18Witness ==
    /\ \A c \in Callers : ipc[c] \in {"resolved", "rejected"}
    /\ \E c \in Callers : irole[c] = "latecomer" /\ ipc[c] = "rejected"
    /\ \E c \in Callers : irole[c] = "starter" /\ ipc[c] = "resolved"
    /\ dlog # "never"
\* C19: every index the loop reads at is at most len - 1, so the branch
\* without interpolation is taken only at the last sample.
C19InRange ==
    (rpc \in {"loop", "done"} /\ inputRate # outputRate /\ ri > 0) =>
        /\ 0 <= rindex /\ rindex <= Len(audioData) - 1
        /\ ~(rindex + 1 < Len(audioData)) => rindex = Len(audioData) - 1
        /\ \A k \in 1..ri : ~IsNaN(result[k])

C19Witness ==
    /\ rpc = "done" /\ inputRate < outputRate /\ newLength > Len(audioData)
    /\ Len(audioData) >= 2 /\ rindex = Len(audioData) - 1
    /\ ri = newLength
====
